---- MODULE Spec2Model ----
(***************************************************************************)
(* Model of the stream adapters of tinky-web (src/components/Canvas.tsx):  *)
(* TerminalWritableStream forwards text and escape sequences to an         *)
(* Xterm.js terminal, TerminalReadableStream re-emits the terminal's       *)
(* input as "data" events; and of the Tinky component that owns them:     *)
(* its renders, its effects, its ResizeObserver and its resize listener;   *)
(* and of the Canvas component that sizes itself after stdout.             *)
(*                                                                         *)
(* A JavaScript string is a sequence of one-character tokens: "ESC" is     *)
(* \x1b, "CR" is \r, "LF" is \n, every other token is the character        *)
(* itself.  A JavaScript value that may be a number, undefined or a        *)
(* function is a record [t |-> typeof, v |-> payload].                     *)
(***************************************************************************)
EXTENDS Integers, Sequences, FiniteSets, TLC

VARIABLES
  term,          \* the Xterm.js Terminal: cols, rows, listener counts
  termWrites,    \* the strings handed to term.write, in order
  termInputs,    \* the chunks the terminal reported through onData, in order
  stdout,        \* TerminalWritableStream: columns, rows, isTTY, writable
  stdin,         \* TerminalReadableStream: isTTY, isRaw, readable, fd
  stdoutEvents,  \* notifications published by stdout, as a subscriber sees them
  stdinEvents,   \* notifications published by stdin
  calls,         \* the adapter calls made so far: operation and arguments
  last,          \* the most recent step: operation, arguments, effects, result
  tinky,         \* the Tinky component: props, refs, effects, ResizeObserver
  canvas         \* a Canvas: its state, its effect, its listeners on stdout

vars == <<term, termWrites, termInputs, stdout, stdin, stdoutEvents,
          stdinEvents, calls, last, tinky, canvas>>

(***************************************************************************)
(* Bounds                                                                  *)
(***************************************************************************)
MaxOps == 2        \* steps of one run of Spec
MaxInOps == 4      \* steps of a run of Spec that uses the input adapter only
MaxSplitLen == 2   \* longest piece of a text written in pieces under SpecSplit
MaxRuns == 3       \* effect runs of one Canvas under SpecCanvas
MaxStrLen == 3     \* longest string written under SpecWrite
MaxCoord == 10     \* largest cursor coordinate under SpecCursor
MaxDelta == 10     \* largest cursor delta under SpecCursor
MaxDir == 2        \* clearLine directions under SpecCursor are -MaxDir..MaxDir

(***************************************************************************)
(* JavaScript values                                                       *)
(***************************************************************************)
Undefined == [t |-> "undefined", v |-> 0]
Null == [t |-> "object", v |-> 0]
Num(n) == [t |-> "number", v |-> n]
Fn(i) == [t |-> "function", v |-> i]
Str(s) == [t |-> "string", v |-> s]

\* if (x): a function, a non-zero number and a non-empty string are truthy,
\* undefined and null are not
Truthy(x) ==
  \/ x.t = "function"
  \/ (x.t = "number" /\ x.v # 0)
  \/ (x.t = "string" /\ x.v # <<>>)

\* a === n for a number literal n
StrictEqNum(x, n) == x.t = "number" /\ x.v = n

DigitChars == <<"0", "1", "2", "3", "4", "5", "6", "7", "8", "9">>

RECURSIVE Digits(_)
Digits(n) ==
  IF n < 10 THEN <<DigitChars[n + 1]>>
  ELSE Digits(n \div 10) \o <<DigitChars[(n % 10) + 1]>>

\* `${n}` for an integer n
NumberToString(n) == IF n < 0 THEN <<"-">> \o Digits(-n) ELSE Digits(n)

Chars == {"a", "CR", "LF"}

RECURSIVE StrsOfLen(_)
StrsOfLen(n) ==
  IF n = 0 THEN {<<>>}
  ELSE {Append(s, c) : s \in StrsOfLen(n - 1), c \in Chars}

Strs(n) == UNION {StrsOfLen(k) : k \in 0..n}

(***************************************************************************)
(* The world an operation runs in.  An operation is a function from world  *)
(* to world; the statements of its body are composed in program order.     *)
(*   term, writes, inputs : the terminal and the traffic at its API        *)
(*   out, inp             : the fields of the two adapters                 *)
(*   outEvents, inEvents  : the notifications subscribers received         *)
(*   cbs                  : the completion callbacks invoked by this call  *)
(***************************************************************************)
World ==
  [term |-> term, writes |-> termWrites, inputs |-> termInputs,
   out |-> stdout, inp |-> stdin,
   outEvents |-> stdoutEvents, inEvents |-> stdinEvents, cbs |-> <<>>]

\* a batching adapter: output is merged into the string forwarded before it
termWriteCoalesced(w, data) ==
  IF w.writes = <<>> THEN [w EXCEPT !.writes = Append(@, data)]
  ELSE [w EXCEPT !.writes[Len(w.writes)] = @ \o data]

\* term.write(data): the terminal receives one string
termWrite(w, data) == [w EXCEPT !.writes = Append(@, data)]

\* if (cb) cb(): the callback runs now and sees what the terminal has received
callCb(w, cb) ==
  IF Truthy(cb)
  THEN [w EXCEPT !.cbs = Append(@, [fn |-> cb.v, args |-> <<>>,
                                     writesSeen |-> Len(w.writes)])]
  ELSE w

\* this.emit(name, ...args) on stdout: delivered synchronously; a subscriber
\* that reads columns/rows in its handler sees the values of this moment
emitOut(w, name, args) ==
  [w EXCEPT !.outEvents =
     Append(@, [name |-> name, args |-> args,
                columns |-> w.out.columns, rows |-> w.out.rows])]

\* this.emit(name, ...args) on stdin
emitIn(w, name, args) ==
  [w EXCEPT !.inEvents = Append(@, [name |-> name, args |-> args])]

(***************************************************************************)
(* TerminalWritableStream                                                  *)
(***************************************************************************)
\* constructor(term)
NewTerminalWritableStream(t) ==
  [isTTY |-> TRUE, writable |-> TRUE, columns |-> t.cols, rows |-> t.rows]

\* the pattern without its lookbehind, /\n/: every line-feed matches
matchesAtAnyLF(str, i) == str[i] = "LF"

\* the regular expression /(?<!\r)\n/ matches at index i of str
matchesAt(str, i) ==
  /\ str[i] = "LF"
  /\ ~(i > 1 /\ str[i - 1] = "CR")

\* the first index >= from where the pattern matches, 0 when there is none
RECURSIVE nextMatch(_, _)
nextMatch(str, from) ==
  IF from > Len(str) THEN 0
  ELSE IF matchesAt(str, from) THEN from
  ELSE nextMatch(str, from + 1)

\* String.prototype.replace with a global pattern: the text between the
\* matches is copied, every match is replaced, the lookbehind reads str
RECURSIVE replaceFrom(_, _, _)
replaceFrom(str, from, acc) ==
  LET m == nextMatch(str, from)
  IN IF m = 0 THEN acc \o SubSeq(str, from, Len(str))
     ELSE replaceFrom(str, m + 1,
                      acc \o SubSeq(str, from, m - 1) \o <<"CR", "LF">>)

\* a replacement that puts the carriage-return after the line-feed
replaceLFThenCR(str) ==
  IF str = <<>> THEN <<>>
  ELSE LET RECURSIVE go(_)
           go(i) == IF i > Len(str) THEN <<>>
                    ELSE (IF matchesAt(str, i) THEN <<"LF", "CR">> ELSE <<str[i]>>)
                         \o go(i + 1)
       IN go(1)

\* a replace that also trims a carriage-return at the very end of the text
replaceLFTrimmed(str) ==
  LET out == replaceFrom(str, 1, <<>>)
  IN IF out # <<>> /\ out[Len(out)] = "CR"
     THEN SubSeq(out, 1, Len(out) - 1) ELSE out

\* str.replace(/(?<!\r)\n/g, "\r\n")
replaceLF(str) == replaceFrom(str, 1, <<>>)

\* a write that reports completion before it forwards the text
writeCallbackFirst(w, str, encoding, cb) ==
  termWrite(callCb(w, cb), replaceLF(str))

\* write(str, _encoding, cb): the second argument is accepted and never read
write(w, str, encoding, cb) == callCb(termWrite(w, replaceLF(str)), cb)

\* an end that closes the stream
endClosing(w, chunk, callback) ==
  LET w1 == IF Truthy(chunk) THEN write(w, chunk.v, Undefined, callback) ELSE w
  IN [w1 EXCEPT !.out.writable = FALSE]

\* end(chunk, callback): if (chunk) this.write(chunk, undefined, callback)
end(w, chunk, callback) ==
  IF Truthy(chunk) THEN write(w, chunk.v, Undefined, callback) ELSE w

\* getWindowSize()
getWindowSize(w) == <<w.out.columns, w.out.rows>>

\* clearLine that knows only -1, 1 and 0: any other direction erases nothing
clearLineStrict(w, dir, callback) ==
  LET w1 == IF StrictEqNum(dir, -1) THEN termWrite(w, <<"ESC", "[", "1", "K">>)
            ELSE IF StrictEqNum(dir, 1) THEN termWrite(w, <<"ESC", "[", "0", "K">>)
            ELSE IF StrictEqNum(dir, 0) THEN termWrite(w, <<"ESC", "[", "2", "K">>)
            ELSE w
  IN callCb(w1, callback)

\* clearLine(dir, callback)
clearLine(w, dir, callback) ==
  LET w1 == IF StrictEqNum(dir, -1) THEN termWrite(w, <<"ESC", "[", "1", "K">>)
            ELSE IF StrictEqNum(dir, 1) THEN termWrite(w, <<"ESC", "[", "0", "K">>)
            ELSE termWrite(w, <<"ESC", "[", "2", "K">>)
  IN callCb(w1, callback)

\* clearScreenDown(callback) that re-reads the terminal's size on the way
clearScreenDownPolling(w, callback) ==
  callCb(termWrite([w EXCEPT !.out.columns = w.term.cols, !.out.rows = w.term.rows],
                   <<"ESC", "[", "J">>), callback)

\* clearScreenDown(callback)
clearScreenDown(w, callback) ==
  callCb(termWrite(w, <<"ESC", "[", "J">>), callback)

\* cursorTo that tests the row with if (y): row 0 counts as omitted
cursorToTruthyRow(w, x, y, callback) ==
  LET isFn == y.t = "function"
      cb == IF isFn THEN y ELSE callback
      y1 == IF isFn THEN Undefined ELSE y
      w1 == IF Truthy(y1)
            THEN termWrite(w, <<"ESC", "[">> \o NumberToString(y1.v + 1)
                              \o <<";">> \o NumberToString(x + 1) \o <<"H">>)
            ELSE termWrite(w, <<"ESC", "[">> \o NumberToString(x + 1) \o <<"G">>)
  IN callCb(w1, cb)

\* cursorTo without the typeof test: a callback in second place is used as
\* the row (`${y + 1}` of a function is its source text followed by 1, here
\* the token "fn" and the digit) and is never invoked
cursorToNoOverload(w, x, y, callback) ==
  LET row == IF y.t = "function" THEN <<"fn", "1">> ELSE NumberToString(y.v + 1)
      w1 == IF y.t # "undefined"
            THEN termWrite(w, <<"ESC", "[">> \o row
                              \o <<";">> \o NumberToString(x + 1) \o <<"H">>)
            ELSE termWrite(w, <<"ESC", "[">> \o NumberToString(x + 1) \o <<"G">>)
  IN callCb(w1, callback)

\* cursorTo(x, y, callback)
cursorTo(w, x, y, callback) ==
  LET isFn == y.t = "function"
      cb == IF isFn THEN y ELSE callback
      y1 == IF isFn THEN Undefined ELSE y
      w1 == IF y1.t # "undefined"
            THEN termWrite(w, <<"ESC", "[">> \o NumberToString(y1.v + 1)
                              \o <<";">> \o NumberToString(x + 1) \o <<"H">>)
            ELSE termWrite(w, <<"ESC", "[">> \o NumberToString(x + 1) \o <<"G">>)
  IN callCb(w1, cb)

\* moveCursor that forgets to negate the leftward and upward deltas
moveCursorSigned(w, dx, dy, callback) ==
  LET w1 == IF dx > 0
            THEN termWrite(w, <<"ESC", "[">> \o NumberToString(dx) \o <<"C">>)
            ELSE w
      w2 == IF dx < 0
            THEN termWrite(w1, <<"ESC", "[">> \o NumberToString(dx) \o <<"D">>)
            ELSE w1
      w3 == IF dy > 0
            THEN termWrite(w2, <<"ESC", "[">> \o NumberToString(dy) \o <<"B">>)
            ELSE w2
      w4 == IF dy < 0
            THEN termWrite(w3, <<"ESC", "[">> \o NumberToString(dy) \o <<"A">>)
            ELSE w3
  IN callCb(w4, callback)

\* moveCursor(dx, dy, callback)
moveCursor(w, dx, dy, callback) ==
  LET w1 == IF dx > 0
            THEN termWrite(w, <<"ESC", "[">> \o NumberToString(dx) \o <<"C">>)
            ELSE w
      w2 == IF dx < 0
            THEN termWrite(w1, <<"ESC", "[">> \o NumberToString(-dx) \o <<"D">>)
            ELSE w1
      w3 == IF dy > 0
            THEN termWrite(w2, <<"ESC", "[">> \o NumberToString(dy) \o <<"B">>)
            ELSE w2
      w4 == IF dy < 0
            THEN termWrite(w3, <<"ESC", "[">> \o NumberToString(-dy) \o <<"A">>)
            ELSE w3
  IN callCb(w4, callback)

\* updateDimensions() that forgets the rows
updateDimensionsColumnsOnly(w) ==
  emitOut([w EXCEPT !.out.columns = w.term.cols], "resize", <<>>)

\* updateDimensions() that publishes before it overwrites
updateDimensionsEmitFirst(w) ==
  LET w1 == emitOut(w, "resize", <<>>)
  IN [w1 EXCEPT !.out.columns = w.term.cols, !.out.rows = w.term.rows]

\* updateDimensions()
updateDimensions(w) ==
  LET w1 == [w EXCEPT !.out.columns = w.term.cols]
      w2 == [w1 EXCEPT !.out.rows = w1.term.rows]
  IN emitOut(w2, "resize", <<>>)

(***************************************************************************)
(* TerminalReadableStream                                                  *)
(***************************************************************************)
\* a listener that also announces the chunk on the "readable" channel
onDataAndReadable(w, data) == emitIn(emitIn(w, "data", <<data>>), "readable", <<>>)

\* a listener that announces the chunk on the "readable" channel only
onDataReadableOnly(w, data) == emitIn(w, "readable", <<>>)

\* the listener the constructor hands to term.onData
onData(w, data) == emitIn(w, "data", <<data>>)

\* constructor(term): the fields, and one listener registered with term.onData
NewTerminalReadableStream == [isTTY |-> TRUE, isRaw |-> TRUE, readable |-> TRUE, fd |-> 0]

onDataListenersAfterNew(t) == [t EXCEPT !.onDataListeners = @ + 1]

\* a read that hands out the chunk the terminal reported last
readBuffered(w, size) ==
  IF w.inputs = <<>> THEN Null ELSE Str(w.inputs[Len(w.inputs)])

\* read(_size): void _size; return null
read(w, size) == Null

\* a setRawMode that leaves the flag alone
setRawModeIgnored(w, mode) == w

\* setRawMode(mode): this.isRaw = mode
setRawMode(w, mode) == [w EXCEPT !.inp.isRaw = mode]

\* setEncoding(_encoding): no statement with an effect
setEncoding(w, encoding) == w

\* resume(): return this
resume(w) == w

\* a pause that takes the listener off the terminal
pauseUnsubscribing(w) == [w EXCEPT !.term.onDataListeners = 0]

\* pause(): return this
pause(w) == w

\* ref(): return this
ref(w) == w

\* unref(): empty body
unref(w) == w

(***************************************************************************)
(* The terminal emulator (Xterm.js), as far as the adapters use it         *)
(***************************************************************************)
\* new Terminal({ disableStdin: false }): no listener yet, not focused
NewTerminal(c, r) ==
  [cols |-> c, rows |-> r, onDataListeners |-> 0, onResizeListeners |-> 0,
   options |-> [disableStdin |-> FALSE, cursorBlink |-> FALSE],
   focused |-> FALSE, disposed |-> FALSE]

\* the terminal reports one input chunk: every onData listener runs with it
RECURSIVE fireOnData(_, _, _)
fireOnData(w, data, n) ==
  IF n = 0 THEN w ELSE fireOnData(onData(w, data), data, n - 1)

termInput(w, data) ==
  fireOnData([w EXCEPT !.inputs = Append(@, data)], data, w.term.onDataListeners)

\* terminal.resize(c, r), called by the owner of the terminal
termResize(w, c, r) == [w EXCEPT !.term.cols = c, !.term.rows = r]

(***************************************************************************)
(* The Tinky component.  React runs the body of the component (a render)   *)
(* and runs the effects of that render later, in source order, the         *)
(* cleanups of the effects whose dependencies changed first.               *)
(*   props        : cols, rows, onResize of the most recent render         *)
(*   pending      : the effects of the most recent render have not run yet *)
(*   mounted      : the init effect has run (terminalRef.current is set)   *)
(*   flushed      : the props of the render whose effects ran last; the    *)
(*                  resize effect's closure holds its cols and rows        *)
(*   onResizeRef  : onResizeRef.current                                    *)
(*   observer     : a ResizeObserver of the resize effect is observing     *)
(*   notify       : that observer has a notification to deliver            *)
(*   proposal     : what fitAddon.proposeDimensions() returns now, <<>>    *)
(*                  for undefined, else <<cols, rows>>                     *)
(*   stderr       : the second TerminalWritableStream                      *)
(*   resized      : the terminal.resize calls of the most recent step      *)
(*   notified     : the onResize callbacks invoked in the most recent step *)
(*   changes      : the changes of the terminal's size in that step        *)
(*   order        : what the handlers and cleanups of that step did, in    *)
(*                  the order they did it                                  *)
(*   unmounted    : React has unmounted the component                      *)
(* The cols and rows props are numbers given in halves, so that a          *)
(* fractional value exists: Halves(61) is 30.5.                            *)
(***************************************************************************)
Halves(h) == [t |-> "number", v |-> h]

\* Math.floor(x)
mathFloor(x) == x.v \div 2

\* a ?? b
nullish(x) == x.t = "undefined" \/ x = Null

\* a terminalOptions object with the properties o
Options(o) == [t |-> "options", v |-> o]

\* { ...a, ...b }
spread(a, b) ==
  [k \in DOMAIN a \cup DOMAIN b |-> IF k \in DOMAIN b THEN b[k] ELSE a[k]]

\* the props a parent gives when it sets none: focused = false by default
DefaultProps ==
  [cols |-> Undefined, rows |-> Undefined, onResize |-> Undefined,
   focused |-> FALSE, terminalOptions |-> Undefined]

NewTinky(props, proposal) ==
  [props |-> props, pending |-> TRUE, mounted |-> FALSE, flushed |-> props,
   onResizeRef |-> props.onResize, observer |-> FALSE, notify |-> FALSE,
   proposal |-> proposal,
   stderr |-> NewTerminalWritableStream(NewTerminal(80, 24)),
   resized |-> <<>>, notified |-> <<>>, changes |-> <<>>, order |-> <<>>,
   unmounted |-> FALSE]

\* no component is rendered: the adapters are constructed on their own
Unrendered == [NewTinky(DefaultProps, <<>>) EXCEPT !.pending = FALSE]

\* the world of a step of the component; the logs of the step start empty
TinkyWorld ==
  [term |-> term, writes |-> <<>>, inputs |-> <<>>,
   out |-> stdout, inp |-> stdin,
   outEvents |-> <<>>, inEvents |-> <<>>, cbs |-> <<>>,
   tk |-> [tinky EXCEPT !.resized = <<>>, !.notified = <<>>, !.changes = <<>>,
                        !.order = <<>>]]

\* the step did this now
did(w, what) == [w EXCEPT !.tk.order = Append(@, what)]

\* stderr.updateDimensions()
stderrUpdateDimensions(w) ==
  LET e == updateDimensions([w EXCEPT !.out = w.tk.stderr])
  IN [w EXCEPT !.tk.stderr = e.out]

\* onResizeRef.current?.(size): the callback sees the streams as they are now
callOnResize(w, size) ==
  IF w.tk.onResizeRef.t = "function"
  THEN did([w EXCEPT !.tk.notified =
              Append(@, [fn |-> w.tk.onResizeRef.v, cols |-> size.cols,
                         rows |-> size.rows,
                         stdout |-> <<w.out.columns, w.out.rows>>,
                         stderr |-> <<w.tk.stderr.columns, w.tk.stderr.rows>>])],
           "onResize")
  ELSE w

\* a handler that tells the application before it updates the streams
onTerminalResizeCallbackFirst(w, size) ==
  LET w1 == callOnResize(w, size)
      w2 == did(updateDimensions(w1), "stdout.updateDimensions")
  IN did(stderrUpdateDimensions(w2), "stderr.updateDimensions")

\* onTerminalResize(size): both streams re-read the terminal's size, then
\* onResizeRef.current?.(size)
onTerminalResize(w, size) ==
  LET w1 == did(updateDimensions(w), "stdout.updateDimensions")
      w2 == did(stderrUpdateDimensions(w1), "stderr.updateDimensions")
  IN callOnResize(w2, size)

\* terminal.resize(c, r) on the terminal of the component: Xterm.js returns
\* when the size is the current one, else it takes the size, though never
\* less than 2 columns and 1 row, and runs its onResize listeners with the
\* size it took.  by tells who called: the fixed branch or the fit callback
\* of the resize effect (with the cols, rows and proposal it used), or the
\* application through the handle
terminalResize(w, c, r, by) ==
  LET w0 == [w EXCEPT !.tk.resized = Append(@, [cols |-> c, rows |-> r, by |-> by])]
      size == [cols |-> IF c < 2 THEN 2 ELSE c, rows |-> IF r < 1 THEN 1 ELSE r]
  IN IF c = w.term.cols /\ r = w.term.rows THEN w0
     ELSE LET w1 == termResize(w0, size.cols, size.rows)
              w2 == IF w1.term.onResizeListeners > 0
                    THEN onTerminalResize(w1, size)
                    ELSE w1
          IN [w2 EXCEPT !.tk.changes =
                Append(@, [cols |-> size.cols, rows |-> size.rows,
                           current |-> w.tk.props.onResize,
                           called |-> SubSeq(w2.tk.notified,
                                             Len(w.tk.notified) + 1,
                                             Len(w2.tk.notified))])]

\* the init effect (dependencies []): terminal, addon, streams, the resize
\* listener and its first call with the terminal's size.  A new Terminal is
\* 80 x 24.  What tinky's render() writes is not followed here.
initEffect(w) ==
  LET t == NewTerminal(80, 24)
      w1 == [w EXCEPT !.term = onDataListenersAfterNew(t),
                      !.out = NewTerminalWritableStream(t),
                      !.inp = NewTerminalReadableStream,
                      !.tk.stderr = NewTerminalWritableStream(t)]
      w2 == [w1 EXCEPT !.term.onResizeListeners = @ + 1]
      w3 == onTerminalResize(w2, [cols |-> w2.term.cols, rows |-> w2.term.rows])
  IN [w3 EXCEPT !.tk.mounted = TRUE]

\* a fit callback that knows the container only: the props are not used
onContainerSizeChangedProposalOnly(w, cols, rows) ==
  LET dimensions == w.tk.proposal
  IN IF dimensions = <<>> THEN w
     ELSE terminalResize(w, dimensions[1], dimensions[2],
                         [src |-> "fit", cols |-> cols, rows |-> rows,
                          proposal |-> dimensions])

\* onContainerSizeChanged(), with the cols and rows its closure holds
onContainerSizeChanged(w, cols, rows) ==
  LET dimensions == w.tk.proposal
  IN IF dimensions = <<>> THEN w
     ELSE LET targetCols == IF nullish(cols) THEN dimensions[1] ELSE mathFloor(cols)
              targetRows == IF nullish(rows) THEN dimensions[2] ELSE mathFloor(rows)
          IN IF targetCols > 0 /\ targetRows > 0
             THEN terminalResize(w, targetCols, targetRows,
                                 [src |-> "fit", cols |-> cols, rows |-> rows,
                                  proposal |-> dimensions])
             ELSE w

\* the resize effect (dependencies [cols, rows]); observe() queues a first
\* notification
resizeEffect(w, cols, rows) ==
  IF Truthy(cols) /\ Truthy(rows)
  THEN terminalResize(w, mathFloor(cols), mathFloor(rows),
                      [src |-> "fixed", cols |-> cols, rows |-> rows,
                       proposal |-> <<>>])
  ELSE onContainerSizeChanged([w EXCEPT !.tk.observer = TRUE, !.tk.notify = TRUE],
                              cols, rows)

\* the cleanup of the resize effect: resizeObserver.disconnect()
resizeCleanup(w) == [w EXCEPT !.tk.observer = FALSE, !.tk.notify = FALSE]

\* the effect of lines 683-685: onResizeRef.current = onResize
onResizeEffect(w, onResize) == [w EXCEPT !.tk.onResizeRef = onResize]

\* the terminalOptions effect: terminal.options = { disableStdin: false,
\* ...terminalOptions }; Xterm.js takes over every property it is given
terminalOptionsEffect(w, terminalOptions) ==
  IF terminalOptions.t = "options"
  THEN [w EXCEPT !.term.options =
          spread(@, spread([disableStdin |-> FALSE], terminalOptions.v))]
  ELSE w

\* the focus effect: terminal.focus() or terminal.blur()
focusEffect(w, focused) == [w EXCEPT !.term.focused = focused]

\* which effects a flush runs: all on mount, else those whose dependencies
\* differ from the ones of their last run
effectsToRun(tk) ==
  [init |-> ~tk.mounted,
   onResize |-> ~tk.mounted \/ tk.props.onResize # tk.flushed.onResize,
   resize |-> ~tk.mounted \/ tk.props.cols # tk.flushed.cols
                          \/ tk.props.rows # tk.flushed.rows,
   terminalOptions |-> ~tk.mounted
                       \/ tk.props.terminalOptions # tk.flushed.terminalOptions,
   focus |-> ~tk.mounted \/ tk.props.focused # tk.flushed.focused]

\* React runs the pending effects.  The children effect (697-707) hands the
\* children to tinky; what tinky renders from them is not followed here.
flushEffects(w) ==
  LET p == w.tk.props
      run == effectsToRun(w.tk)
      w0 == IF run.resize /\ w.tk.mounted THEN resizeCleanup(w) ELSE w
      w1 == IF run.init THEN initEffect(w0) ELSE w0
      w2 == IF run.onResize THEN onResizeEffect(w1, p.onResize) ELSE w1
      w3 == IF run.resize THEN resizeEffect(w2, p.cols, p.rows) ELSE w2
      w4 == IF run.terminalOptions
            THEN terminalOptionsEffect(w3, p.terminalOptions) ELSE w3
      w5 == IF run.focus THEN focusEffect(w4, p.focused) ELSE w4
  IN [w5 EXCEPT !.tk.pending = FALSE, !.tk.flushed = p]

\* terminal.dispose(): the terminal leaves the page, its listeners are gone
terminalDispose(w) ==
  did([w EXCEPT !.term.disposed = TRUE, !.term.focused = FALSE,
                !.term.onDataListeners = 0, !.term.onResizeListeners = 0],
      "terminal.dispose")

\* instance.unmount(): tinky's own code; output is what it writes to stdout
\* while it unmounts, <<>> when it writes nothing
instanceUnmount(w, output) ==
  LET w1 == IF output = <<>> THEN w
            ELSE did(write(w, output, Undefined, Undefined),
                     IF w.term.disposed THEN "stdout.write after dispose"
                     ELSE "stdout.write")
  IN did(w1, "instance.unmount")

\* instance.cleanup()
instanceCleanup(w) == did(w, "instance.cleanup")

\* the cleanup of the init effect (664-673)
initCleanup(w, output) ==
  instanceCleanup(instanceUnmount(terminalDispose(w), output))

\* React unmounts the component: the cleanups run in the order of the effects
unmountCleanups(w, output) ==
  LET w1 == initCleanup(w, output)
      w2 == IF w1.tk.observer
            THEN did(resizeCleanup(w1), "resizeObserver.disconnect") ELSE w1
  IN [w2 EXCEPT !.tk.unmounted = TRUE]

\* a key is pressed: Xterm.js reports it when it has the focus and its
\* disableStdin option is off
keyPress(w, data) ==
  IF w.term.focused /\ ~w.term.options.disableStdin /\ ~w.term.disposed
  THEN termInput(w, data) ELSE w

\* the user clicks into the terminal: Xterm.js takes the focus
clickTerminal(w) ==
  IF w.term.disposed THEN w ELSE [w EXCEPT !.term.focused = TRUE]

\* the user clicks elsewhere on the page: the terminal loses the focus
clickElsewhere(w) == [w EXCEPT !.term.focused = FALSE]

(***************************************************************************)
(* Canvas (85-144), in a browser and with a stdout that has columns and    *)
(* rows.  The context provides one of two stdout objects: 1 is the         *)
(* TerminalWritableStream of the model, 2 another object with columns,     *)
(* rows, on and off.  A listener is the closure onResize of one effect     *)
(* run, named by the number of that run.                                   *)
(***************************************************************************)
StdoutIds == {1, 2}

\* no Canvas has rendered yet
NoCanvas ==
  [mounted |-> FALSE, pending |-> FALSE, dirty |-> FALSE, stdout |-> 1,
   deps |-> 0, onResize |-> 0, runs |-> 0, size |-> <<0, 0>>,
   box |-> <<0, 0>>, on |-> [s \in StdoutIds |-> <<>>],
   other |-> [columns |-> 80, rows |-> 24]]

\* { columns: stdout.columns, rows: stdout.rows } of the stdout object s
stdoutSize(w, s) ==
  IF s = 1 THEN <<w.out.columns, w.out.rows>>
  ELSE <<w.cv.other.columns, w.cv.other.rows>>

\* one render of Canvas with the stdout object s from useStdout(): useState
\* reads stdout's size at the first render only, the Box gets the state
canvasRender(w, s) ==
  LET size == IF w.cv.mounted THEN w.cv.size ELSE stdoutSize(w, s)
  IN [w EXCEPT !.cv.mounted = TRUE, !.cv.stdout = s, !.cv.size = size,
               !.cv.box = size, !.cv.pending = TRUE, !.cv.dirty = FALSE]

\* onResize: setSize({ columns: stdout.columns, rows: stdout.rows }) with
\* the stdout of the listener's closure; the new state asks for a render
canvasOnResize(w, s) ==
  IF w.cv.mounted
  THEN [w EXCEPT !.cv.size = stdoutSize(w, s), !.cv.dirty = TRUE]
  ELSE w

\* stdout.on("resize", onResize) of a new effect run
canvasEffect(w) ==
  LET id == w.cv.runs + 1
  IN [w EXCEPT !.cv.on[w.cv.stdout] = Append(@, id), !.cv.onResize = id,
               !.cv.deps = w.cv.stdout, !.cv.runs = id]

\* a cleanup that hands stdout.off a function of its own: nothing is removed
canvasCleanupOtherFunction(w) == w

\* the effect's cleanup: stdout.off("resize", onResize), with the stdout and
\* the onResize of the effect run it belongs to
canvasCleanup(w) ==
  IF w.cv.deps = 0 THEN w
  ELSE [w EXCEPT !.cv.on[w.cv.deps] =
          SelectSeq(@, LAMBDA id : id # w.cv.onResize)]

\* React runs the effects of the most recent render: the effect depends on
\* [stdout], its cleanup runs before it runs again
canvasFlushEffects(w) ==
  LET w1 == IF w.cv.deps = w.cv.stdout THEN w
            ELSE canvasEffect(canvasCleanup(w))
  IN [w1 EXCEPT !.cv.pending = FALSE]

\* React unmounts the Canvas: the cleanup of the last effect run runs
canvasUnmount(w) ==
  LET w1 == canvasCleanup(w)
  IN [w1 EXCEPT !.cv.mounted = FALSE, !.cv.dirty = FALSE, !.cv.deps = 0,
                !.cv.onResize = 0]

\* the stdout object s publishes "resize": its listeners run in the same
\* call stack
canvasDeliver(w, s) ==
  IF w.cv.on[s] # <<>> THEN canvasOnResize(w, s) ELSE w

(***************************************************************************)
(* Inputs                                                                  *)
(***************************************************************************)
Sizes == {<<80, 24>>, <<100, 50>>}
Cbs == {Undefined, Fn(1)}
SizeHints == {Undefined, Num(1)}
PropDims == {Undefined, Halves(0), Halves(1), Halves(61)}
OnResizes == {Undefined, Fn(1), Fn(2)}
AllProps ==
  [cols : PropDims, rows : PropDims, onResize : OnResizes,
   focused : {FALSE}, terminalOptions : {Undefined}]
TerminalOptions ==
  {Undefined, Options([cursorBlink |-> TRUE]), Options([disableStdin |-> TRUE])}
InputProps ==
  [cols : {Undefined}, rows : {Undefined}, onResize : {Undefined},
   focused : BOOLEAN, terminalOptions : TerminalOptions]
Proposals == {<<>>, <<100, 50>>, <<120, 40>>}
SampleEncodings == {Undefined, Str(<<"utf-8">>)}
Encodings == SampleEncodings \cup {Fn(3)}
SampleStrs == {<<>>, <<"a">>, <<"LF">>, <<"CR", "LF">>}
SampleCoords == {0, 9}
SampleDeltas == {-1, 0, 1}
SampleDirs == {Num(-1), Num(0), Num(1), Undefined}
Chunks == {<<"x">>, <<"ESC", "[", "A">>}

Coords == 0..MaxCoord
Deltas == (0 - MaxDelta)..MaxDelta
Dirs == {Num(d) : d \in (0 - MaxDir)..MaxDir} \cup {Undefined, Null}

(***************************************************************************)
(* Steps.  Every step records itself in last and in calls.                 *)
(***************************************************************************)
Commit(w, op, args, ret) ==
  /\ term' = w.term
  /\ termWrites' = w.writes
  /\ termInputs' = w.inputs
  /\ stdout' = w.out
  /\ stdin' = w.inp
  /\ stdoutEvents' = w.outEvents
  /\ stdinEvents' = w.inEvents
  /\ calls' = Append(calls, [op |-> op, args |-> args])
  /\ last' = [op |-> op, args |-> args, ret |-> ret, cbs |-> w.cbs,
              writesBefore |-> Len(termWrites),
              outEventsBefore |-> Len(stdoutEvents),
              inEventsBefore |-> Len(stdinEvents)]
  /\ UNCHANGED <<tinky, canvas>>

Init ==
  \E size \in Sizes :
    LET t == NewTerminal(size[1], size[2])
    IN /\ stdout = NewTerminalWritableStream(t)
       /\ stdin = NewTerminalReadableStream
       /\ term = onDataListenersAfterNew(t)
       /\ termWrites = <<>>
       /\ termInputs = <<>>
       /\ stdoutEvents = <<>>
       /\ stdinEvents = <<>>
       /\ calls = <<>>
       /\ last = [op |-> "new", args |-> <<>>, ret |-> "void", cbs |-> <<>>,
                  writesBefore |-> 0, outEventsBefore |-> 0, inEventsBefore |-> 0]
       /\ tinky = Unrendered
       /\ canvas = NoCanvas

Write(str, encoding, cb) ==
  /\ Len(calls) < MaxOps
  /\ Commit(write(World, str, encoding, cb), "write", <<str, encoding, cb>>, TRUE)

End(chunk, cb) ==
  /\ Len(calls) < MaxOps
  /\ Commit(end(World, chunk, cb), "end", <<chunk, cb>>, "this")

GetWindowSize ==
  /\ Len(calls) < MaxOps
  /\ Commit(World, "getWindowSize", <<>>, getWindowSize(World))

ClearLine(dir, cb) ==
  /\ Len(calls) < MaxOps
  /\ Commit(clearLine(World, dir, cb), "clearLine", <<dir, cb>>, TRUE)

ClearScreenDown(cb) ==
  /\ Len(calls) < MaxOps
  /\ Commit(clearScreenDown(World, cb), "clearScreenDown", <<cb>>, TRUE)

CursorTo(x, y, cb) ==
  /\ Len(calls) < MaxOps
  /\ Commit(cursorTo(World, x, y, cb), "cursorTo", <<x, y, cb>>, TRUE)

MoveCursor(dx, dy, cb) ==
  /\ Len(calls) < MaxOps
  /\ Commit(moveCursor(World, dx, dy, cb), "moveCursor", <<dx, dy, cb>>, TRUE)

UpdateDimensions ==
  /\ Len(calls) < MaxOps
  /\ Commit(updateDimensions(World), "updateDimensions", <<>>, "void")

\* the owner of the terminal resizes it
TermResize(c, r) ==
  /\ Len(calls) < MaxOps
  /\ Commit(termResize(World, c, r), "term.resize", <<c, r>>, "void")

\* the calls that touch the input adapter only
InputOps == {"term.input", "read", "setRawMode", "setEncoding", "resume", "pause",
             "ref", "unref"}

\* a run that stays on the input adapter may be MaxInOps steps long
InputBudget ==
  \/ Len(calls) < MaxOps
  \/ /\ Len(calls) < MaxInOps
     /\ \A i \in 1..Len(calls) : calls[i].op \in InputOps

\* the user types or pastes: the terminal reports one chunk
TermInput(data) ==
  /\ InputBudget
  /\ Commit(termInput(World, data), "term.input", <<data>>, "void")

Read(size) ==
  /\ InputBudget
  /\ Commit(World, "read", <<size>>, read(World, size))

SetRawMode(mode) ==
  /\ InputBudget
  /\ Commit(setRawMode(World, mode), "setRawMode", <<mode>>, "this")

SetEncoding ==
  /\ InputBudget
  /\ Commit(setEncoding(World, Str(<<"utf-8">>)), "setEncoding", <<Str(<<"utf-8">>)>>, "void")

Resume ==
  /\ InputBudget
  /\ Commit(resume(World), "resume", <<>>, "this")

Pause ==
  /\ InputBudget
  /\ Commit(pause(World), "pause", <<>>, "this")

Ref ==
  /\ InputBudget
  /\ Commit(ref(World), "ref", <<>>, "this")

Unref ==
  /\ InputBudget
  /\ Commit(unref(World), "unref", <<>>, "void")

Next ==
  \/ \E str \in SampleStrs, encoding \in SampleEncodings, cb \in Cbs :
       Write(str, encoding, cb)
  \/ \E chunk \in {Undefined} \cup {Str(s) : s \in SampleStrs}, cb \in Cbs :
       End(chunk, cb)
  \/ GetWindowSize
  \/ \E dir \in SampleDirs, cb \in Cbs : ClearLine(dir, cb)
  \/ \E cb \in Cbs : ClearScreenDown(cb)
  \/ \E x \in SampleCoords, y \in {Num(c) : c \in SampleCoords} \cup {Undefined, Fn(2)},
          cb \in Cbs :
       CursorTo(x, y, cb)
  \/ \E dx \in SampleDeltas, dy \in SampleDeltas, cb \in Cbs : MoveCursor(dx, dy, cb)
  \/ UpdateDimensions
  \/ \E size \in Sizes : TermResize(size[1], size[2])
  \/ \E data \in Chunks : TermInput(data)
  \/ \E size \in SizeHints : Read(size)
  \/ \E mode \in BOOLEAN : SetRawMode(mode)
  \/ SetEncoding
  \/ Resume
  \/ Pause
  \/ Ref
  \/ Unref

Spec == Init /\ [][Next]_vars

\* one write per run, over every string up to MaxStrLen
NextWrite ==
  /\ calls = <<>>
  /\ \E str \in Strs(MaxStrLen), encoding \in Encodings, cb \in Cbs :
       Write(str, encoding, cb)

SpecWrite == Init /\ [][NextWrite]_vars

\* a text written in pieces: only write calls, every piece up to MaxSplitLen
NextSplit ==
  \E str \in Strs(MaxSplitLen) : Write(str, Undefined, Undefined)

SpecSplit == Init /\ [][NextSplit]_vars

\* one cursor or erase call per run, over the wide argument ranges
NextCursor ==
  /\ calls = <<>>
  /\ \/ \E x \in Coords, y \in {Num(c) : c \in Coords} \cup {Undefined, Fn(2)},
             cb \in Cbs :
          CursorTo(x, y, cb)
     \/ \E dx \in Deltas, dy \in Deltas, cb \in Cbs : MoveCursor(dx, dy, cb)
     \/ \E dir \in Dirs, cb \in Cbs : ClearLine(dir, cb)
     \/ \E cb \in Cbs : ClearScreenDown(cb)

SpecCursor == Init /\ [][NextCursor]_vars

(***************************************************************************)
(* The component's steps.  The state is finite: every log, the terminal's  *)
(* traffic and the streams' notifications included, is that of the most    *)
(* recent step only.                                                       *)
(***************************************************************************)
TinkyCommit(w, op, args) ==
  /\ term' = w.term
  /\ termWrites' = w.writes
  /\ termInputs' = w.inputs
  /\ stdout' = w.out
  /\ stdin' = w.inp
  /\ stdoutEvents' = w.outEvents
  /\ stdinEvents' = w.inEvents
  /\ tinky' = w.tk
  /\ last' = [op |-> op, args |-> args, ret |-> "void", cbs |-> <<>>,
              writesBefore |-> 0, outEventsBefore |-> 0, inEventsBefore |-> 0]
  /\ UNCHANGED <<calls, canvas>>

\* the state after the first render of <Tinky>: no effect has run, no
\* terminal exists yet (the adapter variables hold what the init effect
\* will construct)
InitTinkyOf(somePropss, someProposals) ==
  \E props \in somePropss, proposal \in someProposals :
    LET t == NewTerminal(80, 24)
    IN /\ stdout = NewTerminalWritableStream(t)
       /\ stdin = NewTerminalReadableStream
       /\ term = t
       /\ termWrites = <<>>
       /\ termInputs = <<>>
       /\ stdoutEvents = <<>>
       /\ stdinEvents = <<>>
       /\ calls = <<>>
       /\ last = [op |-> "render", args |-> <<props>>, ret |-> "void", cbs |-> <<>>,
                  writesBefore |-> 0, outEventsBefore |-> 0, inEventsBefore |-> 0]
       /\ tinky = NewTinky(props, proposal)
       /\ canvas = NoCanvas

InitTinky == InitTinkyOf(AllProps, Proposals)

\* the parent renders <Tinky> again; React has run the effects of the
\* render before
Render(props) ==
  /\ tinky.mounted
  /\ ~tinky.unmounted
  /\ ~tinky.pending
  /\ TinkyCommit([TinkyWorld EXCEPT !.tk.props = props, !.tk.pending = TRUE],
                 "render", <<props>>)

\* React runs the effects of the most recent render
FlushEffects ==
  /\ tinky.pending
  /\ TinkyCommit(flushEffects(TinkyWorld), "flushEffects",
                 <<effectsToRun(tinky)>>)

\* the container is laid out anew: the addon proposes other dimensions and
\* a connected observer has something to deliver
ContainerResize(proposal) ==
  /\ ~tinky.unmounted
  /\ proposal # tinky.proposal
  /\ TinkyCommit([TinkyWorld EXCEPT !.tk.proposal = proposal,
                                    !.tk.notify = tinky.observer],
                 "containerResize", <<proposal>>)

\* the browser delivers the observer's notification: the callback of the
\* effect run that created the observer runs
ObserverFire ==
  /\ tinky.observer
  /\ tinky.notify
  /\ TinkyCommit(onContainerSizeChanged([TinkyWorld EXCEPT !.tk.notify = FALSE],
                                        tinky.flushed.cols, tinky.flushed.rows),
                 "observerFire", <<>>)

\* the application resizes the terminal through the handle
\* (ref.current.terminal.resize), at any moment after mount
HandleResize(c, r) ==
  /\ tinky.mounted
  /\ ~tinky.unmounted
  /\ TinkyCommit(terminalResize(TinkyWorld, c, r,
                                [src |-> "handle", cols |-> Undefined,
                                 rows |-> Undefined, proposal |-> <<>>]),
                 "handle.resize", <<c, r>>)

NextTinky ==
  \/ \E props \in AllProps : Render(props)
  \/ FlushEffects
  \/ \E proposal \in Proposals : ContainerResize(proposal)
  \/ ObserverFire
  \/ \E size \in Sizes : HandleResize(size[1], size[2])

SpecTinky == InitTinky /\ [][NextTinky]_vars

\* a key is pressed somewhere on the page
KeyPress(data) ==
  /\ tinky.mounted
  /\ TinkyCommit(keyPress(TinkyWorld, data), "keyPress", <<data>>)

\* the user clicks into the terminal
ClickTerminal ==
  /\ tinky.mounted
  /\ TinkyCommit(clickTerminal(TinkyWorld), "clickTerminal", <<>>)

\* the user clicks elsewhere
ClickElsewhere ==
  /\ tinky.mounted
  /\ TinkyCommit(clickElsewhere(TinkyWorld), "clickElsewhere", <<>>)

\* React unmounts the component
Unmount(output) ==
  /\ tinky.mounted
  /\ ~tinky.unmounted
  /\ ~tinky.pending
  /\ TinkyCommit(unmountCleanups(TinkyWorld, output), "unmount", <<output>>)

\* the component with the props that concern input: focus, options, unmount
InitTinkyInput == InitTinkyOf(InputProps, {<<100, 50>>})

NextTinkyInput ==
  \/ \E props \in InputProps : Render(props)
  \/ FlushEffects
  \/ \E data \in Chunks : KeyPress(data)
  \/ ClickTerminal
  \/ ClickElsewhere
  \/ \E output \in {<<>>, <<"ESC", "[", "?", "2", "5", "h">>} : Unmount(output)

SpecTinkyInput == InitTinkyInput /\ [][NextTinkyInput]_vars

(***************************************************************************)
(* The steps of a Canvas and of the stdout objects it listens to           *)
(***************************************************************************)
CanvasWorld ==
  [term |-> term, writes |-> <<>>, inputs |-> <<>>,
   out |-> stdout, inp |-> stdin,
   outEvents |-> <<>>, inEvents |-> <<>>, cbs |-> <<>>, cv |-> canvas]

CanvasCommit(w, op, args) ==
  /\ term' = w.term
  /\ stdout' = w.out
  /\ stdoutEvents' = w.outEvents
  /\ canvas' = w.cv
  /\ last' = [op |-> op, args |-> args, ret |-> "void", cbs |-> <<>>,
              writesBefore |-> 0, outEventsBefore |-> 0, inEventsBefore |-> 0]
  /\ UNCHANGED <<termWrites, termInputs, stdin, stdinEvents, calls, tinky>>

\* Canvas renders: for the first time, again after setSize, or because its
\* parent or the context rendered it with the stdout object s
CanvasRender(s) ==
  /\ ~canvas.pending
  /\ canvas.runs < MaxRuns
  /\ CanvasCommit(canvasRender(CanvasWorld, s), "canvas.render", <<s>>)

CanvasFlushEffects ==
  /\ canvas.pending
  /\ CanvasCommit(canvasFlushEffects(CanvasWorld), "canvas.flushEffects", <<>>)

CanvasUnmount ==
  /\ canvas.mounted
  /\ ~canvas.pending
  /\ CanvasCommit(canvasUnmount(CanvasWorld), "canvas.unmount", <<>>)

\* the terminal of stdout 1 is resized and its owner calls updateDimensions()
StdoutResize(c, r) ==
  /\ <<c, r>> # <<term.cols, term.rows>>
  /\ CanvasCommit(canvasDeliver(updateDimensions(termResize(CanvasWorld, c, r)), 1),
                  "stdout.resize", <<c, r>>)

\* the stdout object 2 changes its size and publishes "resize"
OtherResize(c, r) ==
  /\ <<c, r>> # <<canvas.other.columns, canvas.other.rows>>
  /\ CanvasCommit(canvasDeliver([CanvasWorld EXCEPT !.cv.other.columns = c,
                                                    !.cv.other.rows = r], 2),
                  "other.resize", <<c, r>>)

NextCanvas ==
  \/ \E s \in StdoutIds : CanvasRender(s)
  \/ CanvasFlushEffects
  \/ CanvasUnmount
  \/ \E size \in Sizes : StdoutResize(size[1], size[2])
  \/ \E size \in Sizes : OtherResize(size[1], size[2])

\* at first two stdout objects exist and no Canvas has rendered
SpecCanvas == Init /\ [][NextCanvas]_vars

(***************************************************************************)
(* What the claims are stated with                                         *)
(***************************************************************************)
\* the strings the most recent step handed to the terminal, in order
LastOut == SubSeq(termWrites, last.writesBefore + 1, Len(termWrites))

\* the line-ending rule of the specification, character by character: a
\* line-feed not directly preceded by a carriage-return becomes CR LF, every
\* other character stays
RECURSIVE BareLFToCRLF(_, _)
BareLFToCRLF(s, i) ==
  IF i > Len(s) THEN <<>>
  ELSE (IF s[i] = "LF" /\ (i = 1 \/ s[i - 1] # "CR")
        THEN <<"CR", "LF">> ELSE <<s[i]>>) \o BareLFToCRLF(s, i + 1)

(***************************************************************************)
(* C1: write(s) calls the terminal's write exactly once, with s in which   *)
(* every line-feed not directly preceded by a carriage-return is replaced  *)
(* by CR LF and every other character is unchanged and in place.           *)
(***************************************************************************)
C1_WriteNormalizesOnce ==
  last.op = "write" =>
    /\ Len(LastOut) = 1
    /\ LastOut[1] = BareLFToCRLF(last.args[1], 1)

C1_Witness ==
  /\ last.op = "write"
  /\ last.args[1] = <<"LF", "CR", "LF">>
  /\ termWrites = << <<"CR", "LF", "CR", "LF">> >>

(***************************************************************************)
(* C2: the strings the terminal received are the concatenation, in call    *)
(* order, of each call's own output: nothing is delayed, merged, dropped   *)
(* or reordered, and a call's output is there when the call has returned.  *)
(***************************************************************************)
\* a world in which nothing has been forwarded yet
Fresh == [World EXCEPT !.writes = <<>>, !.cbs = <<>>]

\* what a call forwards when it is the only call
OwnOutput(c) ==
  CASE c.op = "write" -> write(Fresh, c.args[1], c.args[2], c.args[3]).writes
    [] c.op = "end" -> end(Fresh, c.args[1], c.args[2]).writes
    [] c.op = "clearLine" -> clearLine(Fresh, c.args[1], c.args[2]).writes
    [] c.op = "clearScreenDown" -> clearScreenDown(Fresh, c.args[1]).writes
    [] c.op = "cursorTo" -> cursorTo(Fresh, c.args[1], c.args[2], c.args[3]).writes
    [] c.op = "moveCursor" -> moveCursor(Fresh, c.args[1], c.args[2], c.args[3]).writes
    [] OTHER -> <<>>

RECURSIVE OutputsInOrder(_)
OutputsInOrder(cs) ==
  IF cs = <<>> THEN <<>> ELSE OwnOutput(Head(cs)) \o OutputsInOrder(Tail(cs))

C2_OutputInCallOrder == termWrites = OutputsInOrder(calls)

C2_Witness ==
  /\ Len(calls) = 2
  /\ calls[1].op = "moveCursor" /\ calls[1].args[1] = 1 /\ calls[1].args[2] = -1
  /\ calls[2].op = "write" /\ calls[2].args[1] = <<"LF">>
  /\ termWrites = << <<"ESC", "[", "1", "C">>, <<"ESC", "[", "1", "A">>,
                     <<"CR", "LF">> >>

RECURSIVE Synced(_)
Synced(cs) ==
  IF cs = <<>> THEN TRUE
  ELSE LET c == cs[Len(cs)]
       IN IF c.op = "updateDimensions" THEN TRUE
          ELSE IF c.op = "term.resize" THEN FALSE
          ELSE Synced(SubSeq(cs, 1, Len(cs) - 1))

C4_DimensionsAfterSync ==
  Synced(calls) =>
    /\ stdout.columns = term.cols
    /\ stdout.rows = term.rows
    /\ last.op = "getWindowSize" => last.ret = <<term.cols, term.rows>>

C4_Witness ==
  /\ Len(calls) = 2
  /\ calls[1].op = "term.resize" /\ calls[1].args = <<100, 50>>
  /\ last.op = "updateDimensions"
  /\ stdout.columns = 100 /\ stdout.rows = 50

(***************************************************************************)
(* C5: a call of updateDimensions() publishes exactly one notification,    *)
(* "resize" without payload, whether or not the size changed, and the      *)
(* subscriber that reads columns/rows in its handler reads the terminal's  *)
(* current size.                                                           *)
(***************************************************************************)
C5_OneResizePerUpdate ==
  last.op = "updateDimensions" =>
    /\ Len(stdoutEvents) = last.outEventsBefore + 1
    /\ stdoutEvents[Len(stdoutEvents)] =
         [name |-> "resize", args |-> <<>>,
          columns |-> term.cols, rows |-> term.rows]

\* the second of two calls in a row: the size cannot have changed in between
C5_Witness ==
  /\ Len(calls) = 2
  /\ calls[1].op = "updateDimensions"
  /\ last.op = "updateDimensions"
  /\ Len(stdoutEvents) = 2
  /\ stdoutEvents[2].name = "resize"

(***************************************************************************)
(* C6: a step that is not updateDimensions() leaves the cached             *)
(* columns/rows as they were: write, end, clearLine, clearScreenDown,      *)
(* cursorTo, moveCursor, getWindowSize, and a resize of the terminal.      *)
(***************************************************************************)
C6_OnlyUpdateChangesDimensions ==
  [][last'.op # "updateDimensions" =>
       (stdout'.columns = stdout.columns /\ stdout'.rows = stdout.rows)]_vars

\* the terminal was resized and an output call followed: the cache is stale
C6_Witness ==
  /\ Len(calls) = 2
  /\ calls[1].op = "term.resize"
  /\ last.op = "clearScreenDown"
  /\ stdout.columns # term.cols
  /\ stdout.rows # term.rows

(***************************************************************************)
(* Decimal ASCII, read back: what a sequence of digit characters denotes   *)
(***************************************************************************)
DigitValue(c) == CHOOSE d \in 0..9 : DigitChars[d + 1] = c

IsDigit(c) == \E d \in 0..9 : DigitChars[d + 1] = c

RECURSIVE DecimalValue(_)
DecimalValue(s) ==
  IF s = <<>> THEN 0
  ELSE 10 * DecimalValue(SubSeq(s, 1, Len(s) - 1)) + DigitValue(s[Len(s)])

\* s is the decimal numeral of the natural number n, without sign or padding
IsDecimalOf(s, n) ==
  /\ Len(s) >= 1
  /\ \A i \in 1..Len(s) : IsDigit(s[i])
  /\ Len(s) > 1 => s[1] # "0"
  /\ DecimalValue(s) = n

\* s is ESC [ n f for the final character f
IsCsiNumber(s, n, f) ==
  /\ Len(s) >= 4
  /\ s[1] = "ESC" /\ s[2] = "[" /\ s[Len(s)] = f
  /\ IsDecimalOf(SubSeq(s, 3, Len(s) - 1), n)

\* s is ESC [ row ; col H
IsCsiPosition(s, row, col) ==
  /\ Len(s) >= 6
  /\ s[1] = "ESC" /\ s[2] = "[" /\ s[Len(s)] = "H"
  /\ \E k \in 4..(Len(s) - 2) :
       /\ s[k] = ";"
       /\ IsDecimalOf(SubSeq(s, 3, k - 1), row)
       /\ IsDecimalOf(SubSeq(s, k + 1, Len(s) - 1), col)

(***************************************************************************)
(* C7: cursorTo(x) forwards the one sequence ESC [ (x+1) G, cursorTo(x, y) *)
(* the one sequence ESC [ (y+1) ; (x+1) H, also for y = 0; both return     *)
(* true.                                                                   *)
(***************************************************************************)
C7_CursorToSequences ==
  (last.op = "cursorTo" /\ last.args[2].t # "function") =>
    /\ Len(LastOut) = 1
    /\ last.args[2].t = "undefined" => IsCsiNumber(LastOut[1], last.args[1] + 1, "G")
    /\ last.args[2].t = "number" =>
         IsCsiPosition(LastOut[1], last.args[2].v + 1, last.args[1] + 1)
    /\ last.ret = TRUE

C7_Witness ==
  /\ last.op = "cursorTo"
  /\ last.args[1] = 9 /\ last.args[2] = Num(0)
  /\ termWrites = << <<"ESC", "[", "1", ";", "1", "0", "H">> >>

(***************************************************************************)
(* C8: cursorTo(x, callback) forwards the one sequence ESC [ (x+1) G,      *)
(* invokes that callback, and no other, exactly once, after the sequence   *)
(* was forwarded, and returns true.                                        *)
(***************************************************************************)
C8_CursorToCallbackSecond ==
  (last.op = "cursorTo" /\ last.args[2].t = "function") =>
    /\ Len(LastOut) = 1
    /\ IsCsiNumber(LastOut[1], last.args[1] + 1, "G")
    /\ last.cbs = << [fn |-> last.args[2].v, args |-> <<>>,
                      writesSeen |-> last.writesBefore + 1] >>
    /\ last.ret = TRUE

C8_Witness ==
  /\ last.op = "cursorTo"
  /\ last.args[1] = 5 /\ last.args[2] = Fn(2) /\ last.args[3] = Undefined
  /\ termWrites = << <<"ESC", "[", "6", "G">> >>
  /\ Len(last.cbs) = 1

(***************************************************************************)
(* C9: moveCursor(dx, dy) forwards one sequence per non-zero delta, the    *)
(* horizontal one first (C for dx > 0, D for dx < 0), then the vertical    *)
(* one (B for dy > 0, A for dy < 0), each with the absolute value of the   *)
(* delta, and returns true.                                                *)
(***************************************************************************)
Abs(n) == IF n < 0 THEN 0 - n ELSE n

C9_MoveCursorSequences ==
  last.op = "moveCursor" =>
    LET dx == last.args[1]
        dy == last.args[2]
        nx == IF dx = 0 THEN 0 ELSE 1
        ny == IF dy = 0 THEN 0 ELSE 1
    IN /\ Len(LastOut) = nx + ny
       /\ dx # 0 => IsCsiNumber(LastOut[1], Abs(dx), IF dx > 0 THEN "C" ELSE "D")
       /\ dy # 0 => IsCsiNumber(LastOut[nx + 1], Abs(dy), IF dy > 0 THEN "B" ELSE "A")
       /\ last.ret = TRUE

C9_Witness ==
  /\ last.op = "moveCursor"
  /\ last.args[1] = -10 /\ last.args[2] = -1
  /\ termWrites = << <<"ESC", "[", "1", "0", "D">>, <<"ESC", "[", "1", "A">> >>

(***************************************************************************)
(* C10: clearLine(direction) forwards exactly one sequence: ESC [ 1 K for  *)
(* -1, ESC [ 0 K for 1, ESC [ 2 K for every other value, and returns true. *)
(***************************************************************************)
C10_ClearLineSequences ==
  last.op = "clearLine" =>
    LET dir == last.args[1]
        code == IF dir.t = "number" /\ dir.v = -1 THEN "1"
                ELSE IF dir.t = "number" /\ dir.v = 1 THEN "0"
                ELSE "2"
    IN /\ LastOut = << <<"ESC", "[", code, "K">> >>
       /\ last.ret = TRUE

\* a direction that is no number at all
C10_Witness ==
  /\ last.op = "clearLine"
  /\ last.args[1] = Undefined
  /\ termWrites = << <<"ESC", "[", "2", "K">> >>

Invoked(cbs) == [i \in 1..Len(cbs) |-> [fn |-> cbs[i].fn, args |-> cbs[i].args]]

C12_EndDelegatesToWrite ==
  last.op = "end" =>
    LET finalText == last.args[1]
        asWrite == write(Fresh, finalText.v, Undefined, last.args[2])
    IN /\ last.ret = "this"
       /\ finalText.t = "undefined" => LastOut = <<>>
       /\ finalText.t = "string" =>
            /\ LastOut = asWrite.writes
            /\ Invoked(last.cbs) = Invoked(asWrite.cbs)

(***************************************************************************)
(* C13: end() does not close the adapter: once end was called, isTTY and   *)
(* writable are still true and the next operation forwards to the terminal *)
(* exactly what it forwards on an adapter that was never ended.            *)
(***************************************************************************)
Ended == \E i \in 1..Len(calls) : calls[i].op = "end"

C13_EndDoesNotClose ==
  Ended =>
    /\ stdout.isTTY = TRUE
    /\ stdout.writable = TRUE
    /\ LastOut = OwnOutput(calls[Len(calls)])

C13_Witness ==
  /\ Len(calls) = 2
  /\ calls[1].op = "end" /\ calls[1].args[1] = Str(<<"a">>)
  /\ calls[2].op = "cursorTo" /\ calls[2].args[1] = 9 /\ calls[2].args[2] = Num(0)
  /\ termWrites = << <<"a">>, <<"ESC", "[", "1", ";", "1", "0", "H">> >>
  /\ stdout.writable = TRUE

(***************************************************************************)
(* C14: the line-ending rule is idempotent: applied to what write          *)
(* forwarded for s it changes nothing; and for s without carriage-return   *)
(* the forwarded string is s with every line-feed replaced by CR LF.       *)
(***************************************************************************)
RECURSIVE EveryLFToCRLF(_)
EveryLFToCRLF(s) ==
  IF s = <<>> THEN <<>>
  ELSE (IF Head(s) = "LF" THEN <<"CR", "LF">> ELSE <<Head(s)>>)
       \o EveryLFToCRLF(Tail(s))

C14_NormalizeIdempotent ==
  last.op = "write" =>
    LET s == last.args[1]
    IN /\ replaceLF(replaceLF(s)) = replaceLF(s)
       /\ Len(LastOut) = 1
       /\ replaceLF(LastOut[1]) = LastOut[1]
       /\ (\A i \in 1..Len(s) : s[i] # "CR") => LastOut[1] = EveryLFToCRLF(s)

C14_Witness ==
  /\ last.op = "write"
  /\ last.args[1] = <<"LF", "a", "LF">>
  /\ termWrites = << <<"CR", "LF", "a", "CR", "LF">> >>
  /\ replaceLF(termWrites[1]) = termWrites[1]

C16_DeliveryUnconditional ==
  LET published == SubSeq(stdinEvents, last.inEventsBefore + 1, Len(stdinEvents))
  IN /\ last.op = "term.input" =>
          published = <<[name |-> "data", args |-> <<last.args[1]>>]>>
     /\ last.op \in InputOps \ {"term.input"} => published = <<>>

\* a chunk arrives while paused, and resume replays nothing
C16_Witness ==
  /\ Len(calls) = 4
  /\ calls[1].op = "pause" /\ calls[2].op = "term.input"
  /\ calls[3].op = "resume" /\ calls[4].op = "term.input"
  /\ stdinEvents = <<[name |-> "data", args |-> <<calls[2].args[1]>>],
                     [name |-> "data", args |-> <<calls[4].args[1]>>]>>

(***************************************************************************)
(* C17: isRaw is true after construction and afterwards equals the         *)
(* argument of the most recent setRawMode call, whatever other operations  *)
(* came in between; setRawMode returns the adapter.                        *)
(***************************************************************************)
RECURSIVE LastRawMode(_)
LastRawMode(cs) ==
  IF cs = <<>> THEN TRUE
  ELSE IF cs[Len(cs)].op = "setRawMode" THEN cs[Len(cs)].args[1]
  ELSE LastRawMode(SubSeq(cs, 1, Len(cs) - 1))

C17_IsRawFollowsSetRawMode ==
  /\ stdin.isRaw = LastRawMode(calls)
  /\ last.op = "setRawMode" => last.ret = "this"

C17_Witness ==
  /\ Len(calls) = 4
  /\ calls[1].op = "setRawMode" /\ calls[1].args = <<FALSE>>
  /\ calls[2].op = "pause" /\ calls[3].op = "term.input" /\ calls[4].op = "read"
  /\ stdin.isRaw = FALSE

(***************************************************************************)
(* C18: for every change of the terminal's size after mount, the onResize  *)
(* callback of the most recent render is called exactly once, with the new *)
(* cols and rows, and no callback of an earlier render is called.          *)
(***************************************************************************)
\* the callbacks one change of size invoked: which function, which size
CalledFor(ch) ==
  [i \in 1..Len(ch.called) |->
     [fn |-> ch.called[i].fn, cols |-> ch.called[i].cols, rows |-> ch.called[i].rows]]

C18_LatestOnResizeOncePerChange ==
  \A i \in 1..Len(tinky.changes) :
    LET ch == tinky.changes[i]
    IN /\ ch.current.t = "function" =>
            CalledFor(ch) = <<[fn |-> ch.current.v, cols |-> ch.cols, rows |-> ch.rows]>>
       /\ ch.current.t # "function" => CalledFor(ch) = <<>>

(***************************************************************************)
(* C19: once the effects of a render with both cols and rows provided have *)
(* run, no ResizeObserver is active (one created before is disconnected),  *)
(* the resize effect has resized the terminal to exactly floor(cols) x     *)
(* floor(rows), and a change of the container's size causes no             *)
(* terminal.resize.                                                        *)
(***************************************************************************)
BothProvided(p) == p.cols.t = "number" /\ p.rows.t = "number"

C19_FixedDisablesAutoFit ==
  (tinky.mounted /\ ~tinky.pending /\ BothProvided(tinky.flushed)) =>
    /\ ~tinky.observer
    /\ (last.op = "flushEffects" /\ last.args[1].resize) =>
         /\ Len(tinky.resized) = 1
         /\ tinky.resized[1].cols = mathFloor(tinky.flushed.cols)
         /\ tinky.resized[1].rows = mathFloor(tinky.flushed.rows)
    /\ last.op \in {"containerResize", "observerFire"} => tinky.resized = <<>>

(***************************************************************************)
(* C20: a terminal.resize issued by the resize effect while only cols is   *)
(* provided uses floor(cols) as the column count and the rows of the       *)
(* container's proposal as the row count; symmetrically for only rows; and *)
(* with a valid fixed value the observer's notification does resize.       *)
(***************************************************************************)
OnlyCols(by) == by.cols.t = "number" /\ by.rows.t = "undefined"
OnlyRows(by) == by.rows.t = "number" /\ by.cols.t = "undefined"

RECURSIVE Buffered(_)
Buffered(cs) ==
  IF cs = <<>> THEN <<>>
  ELSE LET before == Buffered(SubSeq(cs, 1, Len(cs) - 1))
           c == cs[Len(cs)]
       IN IF c.op = "term.input" THEN Append(before, c.args[1])
          ELSE IF c.op = "read" /\ before # <<>> THEN Tail(before)
          ELSE before

\* what the most recent step published on stdin
PublishedIn == SubSeq(stdinEvents, last.inEventsBefore + 1, Len(stdinEvents))

RECURSIVE Flatten(_)
Flatten(ss) == IF ss = <<>> THEN <<>> ELSE Head(ss) \o Flatten(Tail(ss))

Pieces == [i \in 1..Len(calls) |-> calls[i].args[1]]

C28_SplitIndependent ==
  (\A i \in 1..Len(calls) : calls[i].op = "write") =>
    Flatten(termWrites) = replaceLF(Flatten(Pieces))

(***************************************************************************)
(* C29: write forwards the text with carriage-returns inserted directly    *)
(* before line-feeds and nothing else inserted, removed or moved; a text   *)
(* that ends in a carriage-return is forwarded ending in that one.         *)
(***************************************************************************)
\* out is s with a CR put directly before some of its line-feeds
RECURSIVE OnlyCRBeforeLFInserted(_, _)
OnlyCRBeforeLFInserted(s, out) ==
  IF s = <<>> THEN out = <<>>
  ELSE IF out = <<>> THEN FALSE
  ELSE IF Head(s) = "LF" /\ Head(out) = "CR"
       THEN /\ Len(out) >= 2
            /\ out[2] = "LF"
            /\ OnlyCRBeforeLFInserted(Tail(s), Tail(Tail(out)))
  ELSE /\ Head(out) = Head(s)
       /\ OnlyCRBeforeLFInserted(Tail(s), Tail(out))

C29_LoneCRUnmodified ==
  last.op = "write" =>
    LET s == last.args[1]
    IN /\ Len(LastOut) = 1
       /\ OnlyCRBeforeLFInserted(s, LastOut[1])
       /\ (s # <<>> /\ s[Len(s)] = "CR") =>
            (LastOut[1] # <<>> /\ LastOut[1][Len(LastOut[1])] = "CR")

C29_Witness ==
  /\ last.op = "write"
  /\ last.args[1] = <<"LF", "a", "CR">>
  /\ termWrites = << <<"CR", "LF", "a", "CR">> >>

(***************************************************************************)
(* C21: while the focused prop is false (and the effects of that render    *)
(* have run), a key press forwards no input chunk: stdin publishes no      *)
(* "data" notification.                                                    *)
(***************************************************************************)
C21_UnfocusedIgnoresKeys ==
  (/\ tinky.mounted
   /\ ~tinky.pending
   /\ ~tinky.props.focused
   /\ last.op = "keyPress") => stdinEvents = <<>>

(***************************************************************************)
(* C22: after mount the terminal's disableStdin option is false, whatever  *)
(* terminalOptions objects the renders passed.                             *)
(***************************************************************************)
C22_StdinNeverDisabled ==
  tinky.mounted => term.options.disableStdin = FALSE

(***************************************************************************)
(* C25: after mount the cached size of stdout and of stderr is the         *)
(* terminal's size; the resize handler updates stdout, then stderr, and    *)
(* only then calls the application's onResize, which therefore sees both   *)
(* streams at the size it is passed.                                       *)
(***************************************************************************)
C25_StreamsSyncedBeforeCallback ==
  /\ tinky.mounted =>
       /\ <<stdout.columns, stdout.rows>> = <<term.cols, term.rows>>
       /\ <<tinky.stderr.columns, tinky.stderr.rows>> = <<term.cols, term.rows>>
  /\ \A i \in 1..Len(tinky.notified) :
       LET n == tinky.notified[i]
       IN n.stdout = <<n.cols, n.rows>> /\ n.stderr = <<n.cols, n.rows>>
  /\ \A i \in 1..Len(tinky.order) :
       /\ tinky.order[i] = "onResize" =>
            i > 1 /\ tinky.order[i - 1] = "stderr.updateDimensions"
       /\ tinky.order[i] = "stderr.updateDimensions" =>
            i > 1 /\ tinky.order[i - 1] = "stdout.updateDimensions"

\* the container's notification resizes the terminal from 80 x 24 to 100 x 50
C25_Witness ==
  /\ last.op = "observerFire"
  /\ term.cols = 100 /\ term.rows = 50
  /\ tinky.order = <<"stdout.updateDimensions", "stderr.updateDimensions", "onResize">>
  /\ Len(tinky.notified) = 1
  /\ tinky.notified[1].stdout = <<100, 50>> /\ tinky.notified[1].stderr = <<100, 50>>
  /\ Len(stdoutEvents) = 1 /\ stdoutEvents[1].name = "resize"

(***************************************************************************)
(* C26: every terminal.resize the component issues, in fixed-dimension     *)
(* mode as in auto-fit mode, has a positive column and row target.         *)
(***************************************************************************)
C26_OnlyPositiveTargets ==
  \A i \in 1..Len(tinky.resized) :
    tinky.resized[i].by.src # "handle" =>
      tinky.resized[i].cols > 0 /\ tinky.resized[i].rows > 0

(***************************************************************************)
(* C27: on unmount the Tinky instance is unmounted and cleaned up before   *)
(* the terminal is disposed, and nothing is written through an adapter to  *)
(* a terminal that is already disposed.                                    *)
(***************************************************************************)
Happened(what) == \E i \in 1..Len(tinky.order) : tinky.order[i] = what

Before(a, b) ==
  \E i, j \in 1..Len(tinky.order) :
    i < j /\ tinky.order[i] = a /\ tinky.order[j] = b

C27_InstanceGoesBeforeTerminal ==
  last.op = "unmount" =>
    /\ ~Happened("stdout.write after dispose")
    /\ Before("instance.unmount", "terminal.dispose")
    /\ Before("instance.cleanup", "terminal.dispose")

\* C23: a mounted Canvas responds to every terminal resize: whenever no
\* resize is pending (the effects of its render have run and no state change
\* waits for a render) its rendered width and height are the columns and
\* rows of the stdout it rendered with; a resize between its first render
\* and the registration of its listener is not lost.
C23_CanvasFollowsStdout ==
  (canvas.mounted /\ ~canvas.pending /\ ~canvas.dirty)
    => canvas.box = stdoutSize(CanvasWorld, canvas.stdout)

\* the listeners the Canvas has on stdout objects it does not listen to now
StrayListeners ==
  {s \in StdoutIds : s # canvas.deps /\ canvas.on[s] # <<>>}

====
